---- MODULE Spec2Model ----
(***************************************************************************)
(* A model of golicenser's header engine: the comment codec               *)
(* (CommentStyle.Render, parseComment), the matcher compiler              *)
(* (headerMatcher, regexpYears), the year policies and the history        *)
(* helpers (lastModTime, gitModRange, gitModTimes), and Header.Create /   *)
(* Header.Update.                                                         *)
(*                                                                        *)
(* Go strings are modelled as sequences of one-character strings; a      *)
(* time.Time is modelled by its year, since the code only ever reads      *)
(* Year() and Format("2006") of it.                                       *)
(***************************************************************************)
EXTENDS Integers, Sequences, FiniteSets, TLC

VARIABLES
    cfg,      \* the Header built by NewHeader: template, year mode, comment style
    now,      \* the year timeNow() reports
    git,      \* what git and the filesystem report for the file
    comment,  \* the text handed to the operation (the file's leading comment)
    prov,     \* how that text came to be (who wrote it, with which year string)
    last,     \* the result of the last operation
    pass      \* the analyzer and its run over the files of one package

vars == <<cfg, now, git, comment, prov, last, pass>>

----------------------------------------------------------------------------
(* Strings *)

NL == "\n"

Digits == {"0", "1", "2", "3", "4", "5", "6", "7", "8", "9"}

LowerOrDigit ==
    Digits \cup {"a", "b", "c", "d", "e", "f", "g", "h", "i", "j", "k", "l", "m",
                 "n", "o", "p", "q", "r", "s", "t", "u", "v", "w", "x", "y", "z"}

\* unicode.IsSpace, over the characters the model uses
IsSpace(c) == c \in {" ", "\n", "\t", "\r"}

\* s[from:] in Go, for 0-based from; here from is the number of characters dropped
Drop(s, n) == SubSeq(s, n + 1, Len(s))

Take(s, n) == SubSeq(s, 1, n)

HasPrefix(s, p) == Len(s) >= Len(p) /\ Take(s, Len(p)) = p

HasSuffix(s, p) == Len(s) >= Len(p) /\ Drop(s, Len(s) - Len(p)) = p

RECURSIVE TrimLeft(_)
TrimLeft(s) ==
    IF s # <<>> /\ IsSpace(Head(s)) THEN TrimLeft(Tail(s)) ELSE s

RECURSIVE TrimRight(_)
TrimRight(s) ==
    IF s # <<>> /\ IsSpace(s[Len(s)]) THEN TrimRight(Take(s, Len(s) - 1)) ELSE s

\* strings.TrimSpace
TrimSpace(s) == TrimRight(TrimLeft(s))

\* index of the first occurrence of character c in s at or after position p, 0 if none
RECURSIVE IndexFrom(_, _, _)
IndexFrom(s, c, p) ==
    IF p > Len(s) THEN 0
    ELSE IF s[p] = c THEN p
    ELSE IndexFrom(s, c, p + 1)

\* strings.Split(s, sep) for a one-character separator: always at least one element
RECURSIVE Split(_, _)
Split(s, c) ==
    LET i == IndexFrom(s, c, 1)
    IN  IF i = 0 THEN <<s>>
        ELSE <<Take(s, i - 1)>> \o Split(Drop(s, i), c)

\* strings.SplitN(s, sep, 2)
SplitN2(s, c) ==
    LET i == IndexFrom(s, c, 1)
    IN  IF i = 0 THEN <<s>> ELSE <<Take(s, i - 1), Drop(s, i)>>

RECURSIVE Concat(_)
Concat(ss) == IF ss = <<>> THEN <<>> ELSE Head(ss) \o Concat(Tail(ss))

----------------------------------------------------------------------------
(* Comment styles *)

CommentStyleLine == "line"
CommentStyleBlock == "block"
CommentStyleStarredBlock == "starred-block"

CommentStyles == {CommentStyleLine, CommentStyleBlock, CommentStyleStarredBlock}

\* one rendered line of a line or starred-block comment
RenderLine(marker, l) ==
    marker \o (IF l # <<>> THEN <<" ">> \o l ELSE <<>>) \o <<NL>>

RECURSIVE RenderLines(_, _)
RenderLines(marker, ls) ==
    IF ls = <<>> THEN <<>>
    ELSE RenderLine(marker, Head(ls)) \o RenderLines(marker, Tail(ls))

\* CommentStyle.Render
Render(cs, s) ==
    CASE cs = CommentStyleLine -> RenderLines(<<"/", "/">>, Split(s, NL))
      [] cs = CommentStyleBlock -> <<"/", "*", NL>> \o s \o <<NL, "*", "/", NL>>
      [] cs = CommentStyleStarredBlock ->
            <<"/", "*", NL>> \o RenderLines(<<" ", "*">>, Split(s, NL)) \o <<" ", "*", "/", NL>>
      [] OTHER -> s

\* isDirective: "//line ", "//extern ", "//export ", or "//[a-z0-9]+:[a-z0-9]"
\* (the leading "//" already removed)
isDirective(c) ==
    \/ HasPrefix(c, <<"l", "i", "n", "e", " ">>)
    \/ HasPrefix(c, <<"e", "x", "t", "e", "r", "n", " ">>)
    \/ HasPrefix(c, <<"e", "x", "p", "o", "r", "t", " ">>)
    \/ LET colon == IndexFrom(c, ":", 1)
       IN  /\ colon > 1
           /\ colon + 1 <= Len(c)
           /\ \A i \in 1..(colon + 1) : i = colon \/ c[i] \in LowerOrDigit

\* results of parseComment: status "ok", "error" (a returned error) or "panic"
\* (a slice bounds run-time panic)
ParseOk(text, style) == [status |-> "ok", text |-> text, style |-> style]
ParseError == [status |-> "error", text |-> <<>>, style |-> CommentStyleLine]
ParsePanic == [status |-> "panic", text |-> <<>>, style |-> CommentStyleLine]

\* the loop of the line-comment branch over lines ls, b being the buffer so far
RECURSIVE ParseLineLoop(_, _, _)
ParseLineLoop(ls, first, b) ==
    IF ls = <<>> THEN ParseOk(b, CommentStyleLine)
    ELSE LET sep == IF first THEN <<>> ELSE <<NL>>
             raw == Head(ls)
         IN  IF Len(raw) < 2 THEN ParsePanic
             ELSE LET l == Drop(raw, 2)
                  IN  IF isDirective(l) THEN ParseOk(<<>>, CommentStyleLine)
                      ELSE LET l2 == IF Len(l) > 1 /\ l[1] = " " THEN Drop(l, 1) ELSE l
                           IN  ParseLineLoop(Tail(ls), FALSE, b \o sep \o l2)

\* the first line of the block-comment branch: [b, starred]
ParseBlockFirst(l) ==
    IF Len(l) > 0 /\ l[1] = "*"
    THEN LET l1 == Drop(l, 1)
         IN  [b |-> IF Len(l1) > 0 /\ l1[1] = " " THEN Drop(l1, 1) ELSE l1,
              starred |-> TRUE]
    ELSE [b |-> l, starred |-> FALSE]

\* the loop of the block-comment branch over the lines after the first;
\* s is the trimmed content returned when a line has no " *" prefix
RECURSIVE ParseBlockLoop(_, _, _, _)
ParseBlockLoop(ls, b, starred, s) ==
    IF ls = <<>>
    THEN ParseOk(b, IF starred THEN CommentStyleStarredBlock ELSE CommentStyleBlock)
    ELSE LET l == Head(ls)
         IN  IF HasPrefix(l, <<" ", "*">>)
             THEN LET body == IF Len(l) > 2 /\ l[3] = " " THEN Drop(l, 3) ELSE Drop(l, 2)
                  IN  ParseBlockLoop(Tail(ls), b \o <<NL>> \o body, TRUE, s)
             ELSE ParseOk(s, CommentStyleBlock)

\* a plausible slip: every leading space of a line is stripped, not just one
RECURSIVE ParseLineLoopStripAll(_, _, _)
ParseLineLoopStripAll(ls, first, b) ==
    IF ls = <<>> THEN ParseOk(b, CommentStyleLine)
    ELSE LET sep == IF first THEN <<>> ELSE <<NL>>
             raw == Head(ls)
         IN  IF Len(raw) < 2 THEN ParsePanic
             ELSE ParseLineLoopStripAll(Tail(ls), FALSE, b \o sep \o TrimLeft(Drop(raw, 2)))

parseCommentStripAll(s0) ==
    LET s == TrimSpace(s0)
    IN  IF Len(s) < 2 THEN ParseError
        ELSE IF s[1] = "/" /\ s[2] = "/"
        THEN ParseLineLoopStripAll(Split(s, NL), TRUE, <<>>)
        ELSE IF HasPrefix(s, <<"/", "*">>) /\ HasSuffix(s, <<"*", "/">>) /\ Len(s) >= 4
        THEN ParseOk(TrimSpace(SubSeq(s, 3, Len(s) - 2)), CommentStyleBlock)
        ELSE ParseError

\* parseComment
parseComment(s0) ==
    LET s == TrimSpace(s0)
    IN  IF Len(s) < 2 THEN ParseError
        ELSE IF s[1] = "/" /\ s[2] = "/"
        THEN ParseLineLoop(Split(s, NL), TRUE, <<>>)
        ELSE IF HasPrefix(s, <<"/", "*">>) /\ HasSuffix(s, <<"*", "/">>)
        THEN IF Len(s) < 4 THEN ParsePanic   \* s[2 : len(s)-2] of "/*/"
             ELSE LET t == TrimSpace(SubSeq(s, 3, Len(s) - 2))
                  IN  IF Len(t) < 2 THEN ParseOk(t, CommentStyleBlock)
                      ELSE LET lines == Split(t, NL)
                               f == ParseBlockFirst(lines[1])
                           IN  ParseBlockLoop(Tail(lines), f.b, f.starred, t)
        ELSE ParseError

----------------------------------------------------------------------------
(* Years and year strings *)

\* one decimal digit as a character
Digit(d) ==
    CASE d = 0 -> "0" [] d = 1 -> "1" [] d = 2 -> "2" [] d = 3 -> "3" [] d = 4 -> "4"
      [] d = 5 -> "5" [] d = 6 -> "6" [] d = 7 -> "7" [] d = 8 -> "8" [] d = 9 -> "9"

\* time.Time.Format("2006") of a time in year y (0 <= y <= 9999)
Format2006(y) ==
    <<Digit(y \div 1000), Digit((y \div 100) % 10), Digit((y \div 10) % 10), Digit(y % 10)>>

\* "A-B"
YearRange(a, b) == Format2006(a) \o <<"-">> \o Format2006(b)

\* "A, B, C"
RECURSIVE YearList(_)
YearList(ys) ==
    IF ys = <<>> THEN <<>>
    ELSE IF Len(ys) = 1 THEN Format2006(ys[1])
    ELSE Format2006(ys[1]) \o <<",", " ">> \o YearList(Tail(ys))

----------------------------------------------------------------------------
(* Templates: a parsed text/template is a sequence of tokens, a token being *)
(* one literal character or one of the actions below                         *)

TokYear == "{{.year}}"
TokAuthor == "{{.author}}"
TokFilename == "{{.filename}}"

TokVars == {TokYear, TokAuthor, TokFilename}

\* a custom variable a template can refer to
TokProject == "{{.project}}"

\* the same inside a condition: {{if ne .filename "test"}}{{.project}}{{end}}
TokProjectUnlessTest == "{{if ne .filename \"test\"}}{{.project}}{{end}}"

\* the file name of NewHeader's trial execution, and the one headerMatcher
\* executes the template with
TestFilename == <<"t", "e", "s", "t">>
MatcherFilename == <<"__VAR_filename__">>

\* Template.Execute with the bindings author, filename, year
RECURSIVE Execute(_, _, _, _)
Execute(tmpl, author, filename, year) ==
    IF tmpl = <<>> THEN <<>>
    ELSE LET t == Head(tmpl)
             out == CASE t = TokYear -> year
                      [] t = TokAuthor -> author
                      [] t = TokFilename -> filename
                      [] t = TokProjectUnlessTest ->
                            IF filename = TestFilename THEN <<>> ELSE <<TokProject>>
                      [] OTHER -> <<t>>
         IN  out \o Execute(Tail(tmpl), author, filename, year)

\* which characters of Execute's output come from literal text of the template
RECURSIVE LiteralMask(_, _, _, _)
LiteralMask(tmpl, author, filename, year) ==
    IF tmpl = <<>> THEN <<>>
    ELSE LET t == Head(tmpl)
             out == CASE t = TokYear -> [i \in 1..Len(year) |-> FALSE]
                      [] t = TokAuthor -> [i \in 1..Len(author) |-> FALSE]
                      [] t = TokFilename -> [i \in 1..Len(filename) |-> FALSE]
                      [] t = TokProjectUnlessTest ->
                            IF filename = TestFilename THEN <<>> ELSE <<FALSE>>
                      [] OTHER -> <<TRUE>>
         IN  out \o LiteralMask(Tail(tmpl), author, filename, year)

----------------------------------------------------------------------------
(* Regular expressions: a compiled pattern is a sequence of elements, matched *)
(* the way Go's regexp matches: leftmost, alternatives and repetitions tried  *)
(* in order of preference                                                     *)

ReLit(c) == [k |-> "lit", c |-> c]
ReDot == [k |-> "dot", c |-> ""]
ReYear == [k |-> "year", c |-> ""]
ReFilename == [k |-> "filename", c |-> ""]
\* a literal under the flag (?i): c is in lower case
ReFold(c) == [k |-> "fold", c |-> c]

\* the lower case of the letters that the model writes in upper case
ToLower(c) == CASE c = "C" -> "c" [] c = "J" -> "j" [] OTHER -> c

\* characters regexp.QuoteMeta escapes
MetaChars == {"\\", ".", "+", "*", "?", "(", ")", "|", "[", "]", "{", "}", "^", "$"}

\* regexp.QuoteMeta(s), compiled: every character matches itself
QuoteMeta(s) == [i \in 1..Len(s) |-> ReLit(s[i])]

\* s compiled as written: "." matches any character but a newline, "(" and ")"
\* group and match nothing themselves, other characters match themselves
\* (the templates of the model use no other regexp syntax)
CompileRaw(s) ==
    Concat([i \in 1..Len(s) |->
               CASE s[i] = "." -> <<ReDot>>
                 [] s[i] \in {"(", ")"} -> <<>>
                 [] OTHER -> <<ReLit(s[i])>>])

IsDigitAt(s, p) == p >= 1 /\ p <= Len(s) /\ s[p] \in Digits

IsCharAt(s, p, c) == p >= 1 /\ p <= Len(s) /\ s[p] = c

\* \d{4} at position p
Year4At(s, p) == \A i \in 0..3 : IsDigitAt(s, p + i)

\* the number of consecutive ", \d{4}" groups starting at position p
RECURSIVE ListGroupsAt(_, _)
ListGroupsAt(s, p) ==
    IF IsCharAt(s, p, ",") /\ IsCharAt(s, p + 1, " ") /\ Year4At(s, p + 2)
    THEN 1 + ListGroupsAt(s, p + 6)
    ELSE 0

\* the lengths 4 + 6k for k = n, n-1, .., 1: a greedy (?:, (\d{4}))+
RECURSIVE ListLens(_)
ListLens(n) == IF n = 0 THEN <<>> ELSE <<4 + 6 * n>> \o ListLens(n - 1)

\* regexpYears: (?P<year>(\d{4})|(\d{4})-(\d{4])|(\d{4})(?:, (\d{4}))+)
\* the lengths of the matches of the group at position p, in order of preference.
\* "{4]" is no repetition, so Go reads the second alternative as four digits,
\* a hyphen, one digit and the literal characters "{4]".
regexpYears(s, p) ==
    IF ~Year4At(s, p) THEN <<>>
    ELSE <<4>>
         \o (IF /\ IsCharAt(s, p + 4, "-") /\ IsDigitAt(s, p + 5) /\ IsCharAt(s, p + 6, "{")
                /\ IsCharAt(s, p + 7, "4") /\ IsCharAt(s, p + 8, "]")
             THEN <<9>> ELSE <<>>)
         \o ListLens(ListGroupsAt(s, p + 4))

\* the number of characters other than a newline starting at position p
RECURSIVE RunAt(_, _)
RunAt(s, p) == IF p <= Len(s) /\ s[p] # NL THEN 1 + RunAt(s, p + 1) ELSE 0

\* the lengths n, n-1, .., 1: a greedy .+
RECURSIVE DownTo(_)
DownTo(n) == IF n = 0 THEN <<>> ELSE <<n>> \o DownTo(n - 1)

NoMatch == [ok |-> FALSE, year |-> <<>>, from |-> 0, to |-> 0]

\* elements re[i..] matched against s from position p, year being the text the
\* year group captured so far; lens are the lengths left to try for element i
RECURSIVE MatchFrom(_, _, _, _, _)
RECURSIVE TryLens(_, _, _, _, _, _)
MatchFrom(re, i, s, p, year) ==
    IF i > Len(re) THEN [ok |-> TRUE, year |-> year, from |-> 0, to |-> p]
    ELSE LET e == re[i]
         IN  CASE e.k = "lit" ->
                    IF IsCharAt(s, p, e.c) THEN MatchFrom(re, i + 1, s, p + 1, year) ELSE NoMatch
               [] e.k = "fold" ->
                    IF p >= 1 /\ p <= Len(s) /\ ToLower(s[p]) = e.c
                    THEN MatchFrom(re, i + 1, s, p + 1, year) ELSE NoMatch
               [] e.k = "dot" ->
                    IF p <= Len(s) /\ s[p] # NL THEN MatchFrom(re, i + 1, s, p + 1, year) ELSE NoMatch
               [] e.k = "year" -> TryLens(re, i, s, p, year, regexpYears(s, p))
               [] e.k = "filename" -> TryLens(re, i, s, p, year, DownTo(RunAt(s, p)))

TryLens(re, i, s, p, year, lens) ==
    IF lens = <<>> THEN NoMatch
    ELSE LET n == Head(lens)
             y == IF re[i].k = "year" THEN SubSeq(s, p, p + n - 1) ELSE year
             r == MatchFrom(re, i + 1, s, p + n, y)
         IN  IF r.ok THEN r ELSE TryLens(re, i, s, p, year, Tail(lens))

RECURSIVE FindFrom(_, _, _)
FindFrom(re, s, p) ==
    IF p > Len(s) + 1 THEN NoMatch
    ELSE LET r == MatchFrom(re, 1, s, p, <<>>)
         IN  IF r.ok THEN [r EXCEPT !.from = p] ELSE FindFrom(re, s, p + 1)

\* Regexp.FindStringSubmatch: the leftmost match and its year capture
FindStringSubmatch(re, s) == FindFrom(re, s, 1)

----------------------------------------------------------------------------
(* The matcher compiler *)

\* a plausible slip: the template text is never escaped
headerMatcherRaw(tmpl, escapeTmpl, authorRegexp) ==
    Concat([i \in 1..Len(tmpl) |->
               CASE tmpl[i] = TokYear -> <<ReYear>>
                 [] tmpl[i] = TokAuthor -> authorRegexp
                 [] tmpl[i] = TokFilename -> <<ReFilename>>
                 [] OTHER -> CompileRaw(<<tmpl[i]>>)])

\* headerMatcher: the template executed with placeholders, escaped if asked,
\* the placeholders replaced by the regexps of the variables, compiled
headerMatcher(tmpl, escapeTmpl, authorRegexp) ==
    Concat([i \in 1..Len(tmpl) |->
               CASE tmpl[i] = TokYear -> <<ReYear>>
                 [] tmpl[i] = TokAuthor -> authorRegexp
                 [] tmpl[i] = TokFilename -> <<ReFilename>>
                 [] tmpl[i] = TokProjectUnlessTest -> <<ReLit(TokProject)>>
                 [] OTHER -> IF escapeTmpl THEN QuoteMeta(<<tmpl[i]>>)
                             ELSE CompileRaw(<<tmpl[i]>>)])

----------------------------------------------------------------------------
(* History: what git and the filesystem report for the file.                  *)
(*   addErr   'git log --diff-filter=A' fails                                 *)
(*   logErr   the other 'git log' commands fail                               *)
(*   commits  the years of the commits that modified the file, in the order   *)
(*            'git log --reverse' lists them                                  *)
(*   diffErr, diffOut   'git diff' fails / prints something                   *)
(*   fsErr, fsYear      os.Stat fails / the year of the file's ModTime        *)

TimeOk(y) == [err |-> FALSE, year |-> y]
TimeErr == [err |-> TRUE, year |-> 0]

\* time.Parse(gitISOTimeFormat, out) of a command's whole output, out being
\* the years of the lines it printed: only a single line parses
ParseTime(out) == IF Len(out) = 1 THEN TimeOk(out[1]) ELSE TimeErr

\* fsModTime
fsModTime(g) == IF g.fsErr THEN TimeErr ELSE TimeOk(g.fsYear)

\* gitModTime: 'git log -1', the last commit that modified the file
gitModTime(g) ==
    IF g.logErr THEN TimeErr
    ELSE ParseTime(IF g.commits = <<>> THEN <<>> ELSE <<g.commits[Len(g.commits)]>>)

\* a plausible slip: the commit time is used whatever 'git diff' says
lastModTimeGitOnly(g) == gitModTime(g)

\* lastModTime
lastModTime(g) ==
    IF ~g.diffErr /\ ~g.diffOut THEN gitModTime(g) ELSE fsModTime(g)

\* a plausible slip: the creation time is read from the last commit
gitModRangeLastCommit(g) ==
    LET creationTime == gitModTime(g)
        modTime == lastModTime(g)
    IN  IF creationTime.err \/ modTime.err
        THEN [err |-> TRUE, created |-> 0, modified |-> 0]
        ELSE [err |-> FALSE, created |-> creationTime.year, modified |-> modTime.year]

\* gitModRange: [err, created, modified]
gitModRange(g) ==
    LET line == IF ~g.addErr
                THEN [err |-> FALSE,
                      out |-> IF g.commits = <<>> THEN <<>> ELSE <<g.commits[1]>>]
                ELSE [err |-> g.logErr, out |-> g.commits]
        creationTime == ParseTime(line.out)
        modTime == lastModTime(g)
    IN  IF line.err \/ creationTime.err \/ modTime.err
        THEN [err |-> TRUE, created |-> 0, modified |-> 0]
        ELSE [err |-> FALSE, created |-> creationTime.year, modified |-> modTime.year]

\* gitModTimes: [err, times]
gitModTimes(g) ==
    IF g.logErr \/ g.commits = <<>> THEN [err |-> TRUE, times |-> <<>>]
    ELSE IF g.diffErr /\ g.diffOut
    THEN IF g.fsErr THEN [err |-> TRUE, times |-> <<>>]
         ELSE [err |-> FALSE, times |-> Append(g.commits, g.fsYear)]
    ELSE [err |-> FALSE, times |-> g.commits]

----------------------------------------------------------------------------
(* The header engine *)

YearModePreserve == "preserve"
YearModePreserveThisYearRange == "preserve-this-year-range"
YearModePreserveModifiedRange == "preserve-modified-range"
YearModeThisYear == "this-year"
YearModeLastModified == "last-modified"
YearModeGitRange == "git-range"
YearModeGitModifiedList == "git-modified-list"

YearModes ==
    {YearModePreserve, YearModePreserveThisYearRange, YearModePreserveModifiedRange,
     YearModeThisYear, YearModeLastModified, YearModeGitRange, YearModeGitModifiedList}

\* a template action that is not closed: template.Parse fails on it
TokBadAction == "{{"

\* template.Parse: the only syntax error of the model's templates is TokBadAction
ParseTemplateOk(tmpl) == \A i \in 1..Len(tmpl) : tmpl[i] # TokBadAction

\* Template.Execute under missingkey=error succeeds: every variable the
\* execution for filename comes to evaluate is built in or one of variables
\* (a function from tokens to Var records)
ExecuteOk(tmpl, variables, filename) ==
    \A i \in 1..Len(tmpl) :
        \/ tmpl[i] = TokProject
        \/ tmpl[i] = TokProjectUnlessTest /\ filename # TestFilename
        => TokProject \in DOMAIN variables

\* regexp.Compile succeeds: the expressions of the model go wrong only by
\* parentheses that do not pair up; depth is the number of groups open
RECURSIVE RegexpOk(_, _)
RegexpOk(s, depth) ==
    IF s = <<>> THEN depth = 0
    ELSE CASE Head(s) = "(" -> RegexpOk(Tail(s), depth + 1)
           [] Head(s) = ")" -> depth > 0 /\ RegexpOk(Tail(s), depth - 1)
           [] OTHER -> RegexpOk(Tail(s), depth)

\* the errors of headerMatcher: the matcher template cannot be executed, or
\* the expression it gives does not compile (escaped text always does; the
\* expressions put in for the variables were compiled by NewHeader before)
headerMatcherFails(tmpl, escapeTmpl, variables) ==
    \/ ~ExecuteOk(tmpl, variables, MatcherFilename)
    \/ ~escapeTmpl
       /\ ~RegexpOk(SelectSeq(tmpl, LAMBDA t : t \notin TokVars \cup {TokProject,
                                                                      TokProjectUnlessTest}), 0)

\* NewHeader: [err, h]; Author, Template, Matcher and AuthorRegexp are texts,
\* <<>> when not set
NewHeader(opts) ==
    IF \/ opts.Author = <<>>
       \/ opts.Template = <<>>
       \/ ~ParseTemplateOk(opts.Template)
       \/ ~ExecuteOk(opts.Template, opts.Variables, TestFilename)
       \/ \E v \in DOMAIN opts.Variables :
             /\ opts.Variables[v].Regexp # <<>>
             /\ ~RegexpOk(opts.Variables[v].Regexp, 0)
       \/ opts.AuthorRegexp # <<>> /\ ~RegexpOk(opts.AuthorRegexp, 0)
       \/ /\ opts.Matcher # <<>>
          /\ \/ ~ParseTemplateOk(opts.Matcher)
             \/ headerMatcherFails(opts.Matcher, opts.MatcherEscape, opts.Variables)
       \/ opts.Matcher = <<>> /\ headerMatcherFails(opts.Template, TRUE, opts.Variables)
    THEN [err |-> TRUE, h |-> [tmpl |-> <<>>]]
    ELSE LET authorRegexp == IF opts.AuthorRegexp = <<>> THEN QuoteMeta(opts.Author)
                             ELSE CompileRaw(opts.AuthorRegexp)
         IN  [err |-> FALSE,
              h |-> [tmpl |-> opts.Template,
                     matcher |-> IF opts.Matcher # <<>>
                                 THEN headerMatcher(opts.Matcher, opts.MatcherEscape, authorRegexp)
                                 ELSE headerMatcher(opts.Template, TRUE, authorRegexp),
                     author |-> opts.Author,
                     variables |-> opts.Variables,
                     yearMode |-> opts.YearMode,
                     commentStyle |-> opts.CommentStyle]]

\* Header.render, the text
render(h, filename, year) == Execute(h.tmpl, h.author, filename, year)

\* Header.render returns an error: h.tmpl.Execute fails
renderFails(h, filename) == ~ExecuteOk(h.tmpl, h.variables, filename)

\* Header.Create
Create(h, filename, clock) ==
    Render(h.commentStyle, render(h, filename, Format2006(clock)))

\* Regexp.SubexpIndex("year") != -1
HasYearGroup(re) == \E i \in 1..Len(re) : re[i].k = "year"

\* a plausible slip: equal years that follow each other are not collapsed
RECURSIVE ModifiedListLoopKeepAll(_, _, _)
ModifiedListLoopKeepAll(modTimes, i, year) ==
    IF i + 1 > Len(modTimes) THEN year
    ELSE ModifiedListLoopKeepAll(modTimes, i + 1,
                                 year \o <<",", " ">> \o Format2006(modTimes[i + 1]))

\* the loop of YearModeGitModifiedList over modTimes[1:]: i is the index of the
\* entry before the one looked at
RECURSIVE ModifiedListLoop(_, _, _)
ModifiedListLoop(modTimes, i, year) ==
    IF i + 1 > Len(modTimes) THEN year
    ELSE IF modTimes[i] = modTimes[i + 1]
    THEN ModifiedListLoop(modTimes, i + 1, year)
    ELSE ModifiedListLoop(modTimes, i + 1, year \o <<",", " ">> \o Format2006(modTimes[i + 1]))

\* the year of the two preserving range modes: the previous year string up to
\* its first hyphen, extended to year y when it differs from y
PreserveRange(prev, y) ==
    LET parts == SplitN2(prev, "-")
        start == IF Len(parts) > 1 THEN parts[1] ELSE prev
    IN  IF start # Format2006(y) THEN start \o <<"-">> \o Format2006(y) ELSE start

\* a plausible slip: every year mode keeps the year the matcher captured
UpdateYearKeepsPrevious(h, match, g, clock) ==
    IF HasYearGroup(h.matcher) THEN match.year ELSE <<>>

\* the switch on h.yearMode in Header.Update: the year before the fallback to
\* the current year, <<>> when none was resolved
UpdateYear(h, match, g, clock) ==
    CASE h.yearMode = YearModePreserve ->
            IF HasYearGroup(h.matcher) THEN match.year ELSE <<>>
      [] h.yearMode = YearModePreserveThisYearRange ->
            IF HasYearGroup(h.matcher) THEN PreserveRange(match.year, clock) ELSE <<>>
      [] h.yearMode = YearModePreserveModifiedRange ->
            IF HasYearGroup(h.matcher)
            THEN IF lastModTime(g).err THEN match.year
                 ELSE PreserveRange(match.year, lastModTime(g).year)
            ELSE <<>>
      [] h.yearMode = YearModeThisYear -> <<>>
      [] h.yearMode = YearModeLastModified ->
            IF lastModTime(g).err THEN <<>> ELSE Format2006(lastModTime(g).year)
      [] h.yearMode = YearModeGitRange ->
            LET r == gitModRange(g)
            IN  IF r.err THEN <<>>
                ELSE IF r.created = r.modified THEN Format2006(r.created)
                ELSE YearRange(r.created, r.modified)
      [] h.yearMode = YearModeGitModifiedList ->
            LET r == gitModTimes(g)
            IN  IF ~r.err /\ Len(r.times) > 0
                THEN ModifiedListLoop(r.times, 1, Format2006(r.times[1]))
                ELSE <<>>

NoResult ==
    [op |-> "none", status |-> "ok", text |-> <<>>, style |-> CommentStyleLine,
     changed |-> FALSE, matched |-> FALSE, prev |-> <<>>, year |-> <<>>, plain |-> <<>>]

\* a plausible slip: only the text decides whether the header changed
UpdateIgnoresStyle(h, filename, header, g, clock) ==
    LET pc == parseComment(header)
        match == FindStringSubmatch(h.matcher, pc.text)
    IN  IF pc.status # "ok"
        THEN [NoResult EXCEPT !.op = "Update", !.status = pc.status]
        ELSE IF ~match.ok
        THEN [NoResult EXCEPT !.op = "Update", !.text = pc.text, !.style = pc.style,
                              !.plain = pc.text]
        ELSE LET y == UpdateYear(h, match, g, clock)
                 year == IF y = <<>> THEN Format2006(clock) ELSE y
                 newHeader == render(h, filename, year)
             IN  [op |-> "Update", status |-> "ok",
                  text |-> Render(h.commentStyle, newHeader),
                  style |-> pc.style,
                  changed |-> (newHeader # pc.text),
                  matched |-> TRUE, prev |-> match.year, year |-> year,
                  plain |-> pc.text]

\* a plausible slip: an unresolved year is rendered as it is, empty
UpdateNoFallback(h, filename, header, g, clock) ==
    LET pc == parseComment(header)
        match == FindStringSubmatch(h.matcher, pc.text)
    IN  IF pc.status # "ok"
        THEN [NoResult EXCEPT !.op = "Update", !.status = pc.status]
        ELSE IF ~match.ok
        THEN [NoResult EXCEPT !.op = "Update", !.text = pc.text, !.style = pc.style,
                              !.plain = pc.text]
        ELSE LET y == UpdateYear(h, match, g, clock)
                 year == y
                 newHeader == render(h, filename, year)
             IN  [op |-> "Update", status |-> "ok",
                  text |-> Render(h.commentStyle, newHeader),
                  style |-> pc.style,
                  changed |-> (newHeader # pc.text \/ h.commentStyle # pc.style),
                  matched |-> TRUE, prev |-> match.year, year |-> year,
                  plain |-> pc.text]

\* Header.Update: text and changed are what it returns; status is "error" when
\* it returns an error and "panic" when parseComment panics; matched, prev
\* (the year the matcher captured), year (the year rendered), style and plain
\* (what parseComment returned) record what it computed on the way
Update(h, filename, header, g, clock) ==
    LET pc == parseComment(header)
        match == FindStringSubmatch(h.matcher, pc.text)
    IN  IF pc.status # "ok"
        THEN [NoResult EXCEPT !.op = "Update", !.status = pc.status]
        ELSE IF ~match.ok
        THEN [NoResult EXCEPT !.op = "Update", !.text = pc.text, !.style = pc.style,
                              !.plain = pc.text]
        ELSE LET y == UpdateYear(h, match, g, clock)
                 year == IF y = <<>> THEN Format2006(clock) ELSE y
                 newHeader == render(h, filename, year)
             IN  IF renderFails(h, filename)
                 THEN [NoResult EXCEPT !.op = "Update", !.status = "error"]
                 ELSE
                 [op |-> "Update", status |-> "ok",
                  text |-> Render(h.commentStyle, newHeader),
                  style |-> pc.style,
                  changed |-> (newHeader # pc.text \/ h.commentStyle # pc.style),
                  matched |-> TRUE, prev |-> match.year, year |-> year,
                  plain |-> pc.text]

----------------------------------------------------------------------------
(* The analyzer: newAnalyzer and checkFile.  A file name is the sequence of   *)
(* its path segments and separators, e.g. <<"testdata", "/", "b.go">>.        *)

\* runtime.GOMAXPROCS(0) * 2 on a machine with one processor
DefaultMaxConcurrent == 2

\* "(?i)copyright", compiled
DefaultCopyrightHeaderMatcher ==
    <<ReFold("c"), ReFold("o"), ReFold("p"), ReFold("y"), ReFold("r"), ReFold("i"),
      ReFold("g"), ReFold("h"), ReFold("t")>>

\* "**/testdata/**"
DefaultExcludes == << <<"**", "/", "testdata", "/", "**">> >>

\* doublestar.ValidatePattern: the patterns of the model go wrong only by a
\* character class that is not closed
ValidatePattern(p) ==
    \A i \in 1..Len(p) : p[i] = "[" => \E j \in (i + 1)..Len(p) : p[j] = "]"

\* doublestar.Match on path segments: "**" stands for any number of segments,
\* any other segment of the model's patterns for itself
RECURSIVE MatchSegments(_, _)
MatchSegments(ps, fs) ==
    IF ps = <<>> THEN fs = <<>>
    ELSE IF Head(ps) = <<"**">>
    THEN MatchSegments(Tail(ps), fs) \/ (fs # <<>> /\ MatchSegments(ps, Tail(fs)))
    ELSE fs # <<>> /\ Head(ps) = Head(fs) /\ MatchSegments(Tail(ps), Tail(fs))

\* the ExcludeMatcherFunc built for one pattern, applied to a file name
ExcludeMatches(exclude, filename) ==
    IF HasPrefix(exclude, <<"r!">>)
    THEN FindStringSubmatch(CompileRaw(Drop(exclude, 1)), filename).ok
    ELSE MatchSegments(Split(exclude, "/"), Split(filename, "/"))

\* a plausible slip: exclude patterns that are no regexp are not validated
newAnalyzerKeepsGlobs(config) ==
    LET maxConcurrent == IF config.MaxConcurrent < 1 THEN DefaultMaxConcurrent
                         ELSE config.MaxConcurrent
        excludes == IF config.Exclude = <<>> THEN DefaultExcludes ELSE config.Exclude
        used == SelectSeq(excludes, LAMBDA e : e # <<>>)
        header == NewHeader(config.Header)
    IN  IF \/ ~RegexpOk(config.CopyrightHeaderMatcher, 0)
           \/ \E i \in 1..Len(used) :
                 IF HasPrefix(used[i], <<"r!">>) THEN ~RegexpOk(Drop(used[i], 1), 0)
                 ELSE FALSE
           \/ header.err
        THEN [err |-> TRUE, a |-> [cfg |-> [MaxConcurrent |-> 0]]]
        ELSE [err |-> FALSE,
              a |-> [cfg |-> [MaxConcurrent |-> maxConcurrent],
                     excludes |-> used,
                     headerMatcher |-> IF config.CopyrightHeaderMatcher = <<>>
                                       THEN DefaultCopyrightHeaderMatcher
                                       ELSE CompileRaw(config.CopyrightHeaderMatcher),
                     header |-> header.h]]

\* newAnalyzer: [err, a]; Exclude <<>> is a nil slice, CopyrightHeaderMatcher
\* <<>> an empty string
newAnalyzer(config) ==
    LET maxConcurrent == IF config.MaxConcurrent < 1 THEN DefaultMaxConcurrent
                         ELSE config.MaxConcurrent
        excludes == IF config.Exclude = <<>> THEN DefaultExcludes ELSE config.Exclude
        used == SelectSeq(excludes, LAMBDA e : e # <<>>)
        header == NewHeader(config.Header)
    IN  IF \/ ~RegexpOk(config.CopyrightHeaderMatcher, 0)
           \/ \E i \in 1..Len(used) :
                 IF HasPrefix(used[i], <<"r!">>) THEN ~RegexpOk(Drop(used[i], 1), 0)
                 ELSE ~ValidatePattern(used[i])
           \/ header.err
        THEN [err |-> TRUE, a |-> [cfg |-> [MaxConcurrent |-> 0]]]
        ELSE [err |-> FALSE,
              a |-> [cfg |-> [MaxConcurrent |-> maxConcurrent],
                     excludes |-> used,
                     headerMatcher |-> IF config.CopyrightHeaderMatcher = <<>>
                                       THEN DefaultCopyrightHeaderMatcher
                                       ELSE CompileRaw(config.CopyrightHeaderMatcher),
                     header |-> header.h]]

\* what checkFile did: err when it returned an error, panic when it did not
\* return, message "" when it reported nothing; a fix replaces the text from
\* pos to end ("start" the start of the file, "comment" the ends of the
\* leading comment) by text
NoReport == [err |-> FALSE, panic |-> FALSE, message |-> "", pos |-> "", end |-> "",
             text |-> <<>>]

\* the text of the file's first comment group when it stands before the
\* package clause, a newline after every comment of the group
LeadingComment(file) ==
    IF file.comments # <<>> /\ file.beforePackage
    THEN Concat([i \in 1..Len(file.comments) |-> file.comments[i] \o <<NL>>])
    ELSE <<>>

\* a plausible slip: a comment the header matcher does not match is replaced
checkFileReportsUnmatched(a, file, g, clock) ==
    LET header == LeadingComment(file)
    IN  IF \E i \in 1..Len(a.excludes) : ExcludeMatches(a.excludes[i], file.name)
        THEN NoReport
        ELSE IF header = <<>> \/ ~FindStringSubmatch(a.headerMatcher, header).ok
        THEN [NoReport EXCEPT !.message = "missing license header",
                              !.pos = "start", !.end = "start",
                              !.text = Create(a.header, file.name, clock) \o <<NL>>]
        ELSE LET u == Update(a.header, file.name, header, g, clock)
             IN  IF u.status = "panic" THEN [NoReport EXCEPT !.panic = TRUE]
                 ELSE IF u.status = "error" THEN [NoReport EXCEPT !.err = TRUE]
                 ELSE IF u.changed \/ ~u.matched
                 THEN [NoReport EXCEPT !.message = "invalid license header",
                                       !.pos = "comment", !.end = "comment",
                                       !.text = u.text \o <<NL>>]
                 ELSE NoReport

\* a plausible slip: a file that starts with any comment is taken to have a header
checkFileKeepsOtherComments(a, file, g, clock) ==
    LET header == LeadingComment(file)
    IN  IF \E i \in 1..Len(a.excludes) : ExcludeMatches(a.excludes[i], file.name)
        THEN NoReport
        ELSE IF header # <<>> /\ ~FindStringSubmatch(a.headerMatcher, header).ok
        THEN NoReport
        ELSE IF header = <<>>
        THEN [NoReport EXCEPT !.message = "missing license header",
                              !.pos = "start", !.end = "start",
                              !.text = Create(a.header, file.name, clock) \o <<NL>>]
        ELSE LET u == Update(a.header, file.name, header, g, clock)
             IN  IF u.status = "panic" THEN [NoReport EXCEPT !.panic = TRUE]
                 ELSE IF u.status = "error" THEN [NoReport EXCEPT !.err = TRUE]
                 ELSE IF u.changed
                 THEN [NoReport EXCEPT !.message = "invalid license header",
                                       !.pos = "comment", !.end = "comment",
                                       !.text = u.text \o <<NL>>]
                 ELSE NoReport

\* analyzer.checkFile
checkFile(a, file, g, clock) ==
    LET header == LeadingComment(file)
    IN  IF \E i \in 1..Len(a.excludes) : ExcludeMatches(a.excludes[i], file.name)
        THEN NoReport
        ELSE IF header = <<>> \/ ~FindStringSubmatch(a.headerMatcher, header).ok
        THEN IF renderFails(a.header, file.name) THEN [NoReport EXCEPT !.err = TRUE]
             ELSE
             [NoReport EXCEPT !.message = "missing license header",
                              !.pos = "start", !.end = "start",
                              !.text = Create(a.header, file.name, clock) \o <<NL>>]
        ELSE LET u == Update(a.header, file.name, header, g, clock)
             IN  IF u.status = "panic" THEN [NoReport EXCEPT !.panic = TRUE]
                 ELSE IF u.status = "error" THEN [NoReport EXCEPT !.err = TRUE]
                 ELSE IF u.changed
                 THEN [NoReport EXCEPT !.message = "invalid license header",
                                       !.pos = "comment", !.end = "comment",
                                       !.text = u.text \o <<NL>>]
                 ELSE NoReport

----------------------------------------------------------------------------
(* The state shared by the specifications *)

NoProv ==
    [kind |-> "none", text |-> <<>>, style |-> CommentStyleLine, year |-> <<>>, of |-> "none",
     pos |-> 0]

\* no analyzer has been built and no package is being analysed
NoPass == [state |-> "none"]

NoAnalyzer == [cfg |-> [MaxConcurrent |-> 0]]

NoCfg ==
    [tmpl |-> <<>>, matcher |-> <<>>, author |-> <<>>, variables |-> <<>>,
     yearMode |-> "none", commentStyle |-> CommentStyleLine]

NoGit ==
    [addErr |-> FALSE, logErr |-> FALSE, commits |-> <<>>, diffErr |-> FALSE,
     diffOut |-> FALSE, fsErr |-> FALSE, fsYear |-> 0]

----------------------------------------------------------------------------
(* Configurations, clocks, histories and existing headers the model explores *)

Author == <<"J">>

FileName == <<"a", ".", "g", "o">>

\* "(c) {{.year}} {{.author}}"
TmplYearMid == <<"(", "c", ")", " ", TokYear, " ", TokAuthor>>

\* "c. {{.author}} {{.year}}"
TmplYearEnd == <<"c", ".", " ", TokAuthor, " ", TokYear>>

\* "(c) {{.year}}\nf {{.filename}}."
TmplFile == <<"(", "c", ")", " ", TokYear, NL, "f", " ", TokFilename, ".">>

Templates == {TmplYearMid, TmplYearEnd, TmplFile}

\* HeaderOpts without an alternate matcher
Opts(tmpl, ym, cs) ==
    [Template |-> tmpl, Matcher |-> <<>>, MatcherEscape |-> FALSE, Author |-> Author,
     AuthorRegexp |-> <<>>, Variables |-> <<>>, YearMode |-> ym, CommentStyle |-> cs]

Headers ==
    {NewHeader(Opts(t, ym, cs)).h : t \in Templates, ym \in YearModes, cs \in CommentStyles}

NowYears == {2025}

\* year strings found in existing headers: a single year, a range, a list
YearStrings ==
    {Format2006(2025), Format2006(2022), YearRange(2022, 2025), YearList(<<2022, 2024, 2025>>)}

\* a file committed in 2022 and 2024, unchanged since
GitClean ==
    [addErr |-> FALSE, logErr |-> FALSE, commits |-> <<2022, 2024>>, diffErr |-> FALSE,
     diffOut |-> FALSE, fsErr |-> FALSE, fsYear |-> 2024]

\* the same file with uncommitted changes made in 2025
GitDirty == [GitClean EXCEPT !.diffOut = TRUE, !.fsYear = 2025]

\* a file added in 2025 and unchanged since
GitNew == [GitClean EXCEPT !.commits = <<2025>>, !.fsYear = 2025]

\* a file outside any repository, last written in 2024: every git command fails
GitNone ==
    [addErr |-> TRUE, logErr |-> TRUE, commits |-> <<>>, diffErr |-> TRUE,
     diffOut |-> TRUE, fsErr |-> FALSE, fsYear |-> 2024]

Histories == {GitClean, GitDirty, GitNew, GitNone}

\* an existing header: the template rendered with year string ys, alone
\* ("rendered") or with a line of other text before or after it
WrittenKinds == {"rendered", "before", "after"}

WrittenText(h, kind, ys) ==
    LET plain == Execute(h.tmpl, h.author, FileName, ys)
    IN  CASE kind = "rendered" -> plain
          [] kind = "before" -> <<"x", NL>> \o plain
          [] kind = "after" -> plain \o <<NL, "x">>

----------------------------------------------------------------------------
(* The header engine at work on one file *)

Init ==
    /\ cfg \in Headers
    /\ now \in NowYears
    /\ git \in Histories
    /\ comment = <<>>
    /\ prov = NoProv
    /\ last = NoResult
    /\ pass = NoPass

\* somebody writes a header at the top of the file
WriteHeader ==
    \E kind \in WrittenKinds, ys \in YearStrings, cs \in CommentStyles :
        /\ prov.kind = "none"
        /\ comment' = Render(cs, WrittenText(cfg, kind, ys))
        /\ prov' = [NoProv EXCEPT !.kind = kind, !.text = WrittenText(cfg, kind, ys),
                                  !.style = cs, !.year = ys]
        /\ last' = NoResult
        /\ UNCHANGED <<cfg, now, git, pass>>

\* Header.Create is called for the file
DoCreate ==
    /\ last' = [NoResult EXCEPT !.op = "Create",
                                !.status = IF renderFails(cfg, FileName) THEN "error" ELSE "ok",
                                !.text = IF renderFails(cfg, FileName) THEN <<>>
                                         ELSE Create(cfg, FileName, now),
                                !.year = Format2006(now)]
    /\ UNCHANGED <<cfg, now, git, comment, prov, pass>>

\* Header.Update is called on the file's comment
DoUpdate ==
    /\ comment # <<>>
    /\ last' = Update(cfg, FileName, comment, git, now)
    /\ UNCHANGED <<cfg, now, git, comment, prov, pass>>

\* the text the last operation returned becomes the file's comment
WriteBack ==
    /\ last.status = "ok"
    /\ last.op = "Create" \/ (last.op = "Update" /\ last.matched)
    /\ comment' = last.text
    /\ prov' = [NoProv EXCEPT !.kind = "result", !.text = last.text, !.of = last.op]
    /\ last' = NoResult
    /\ UNCHANGED <<cfg, now, git, pass>>

Next == WriteHeader \/ DoCreate \/ DoUpdate \/ WriteBack

Spec == Init /\ [][Next]_vars

----------------------------------------------------------------------------
(* The matcher on its own: a template is compiled by NewHeader, as its own    *)
(* matcher ("none": no alternate matcher) or as the alternate matcher with    *)
(* MatcherEscape set ("escaped") or not ("raw"), and run on the text rendered *)
(* from the template, as rendered or with one literal character altered      *)

MatcherModes == {"none", "escaped", "raw"}

MatchOpts(tmpl, mode) ==
    [Opts(tmpl, YearModePreserve, CommentStyleLine) EXCEPT
        !.Matcher = IF mode = "none" THEN <<>> ELSE tmpl,
        !.MatcherEscape = (mode = "escaped")]

\* the characters a literal character is altered to
AlterChars == {"x", "0"}

MatchInit ==
    /\ now \in NowYears
    /\ git = NoGit
    /\ last = NoResult
    /\ pass = NoPass
    /\ \E t \in Templates, mode \in MatcherModes, ys \in YearStrings :
          /\ cfg = NewHeader(MatchOpts(t, mode)).h
          /\ comment = Execute(t, Author, FileName, ys)
          /\ prov = [NoProv EXCEPT !.kind = "plain", !.text = Execute(t, Author, FileName, ys),
                                   !.year = ys, !.of = mode]

\* one character that comes from the literal text of the template is altered
AlterLiteral ==
    /\ prov.kind = "plain"
    /\ last.op = "none"
    /\ \E i \in 1..Len(comment), c \in AlterChars :
          /\ LiteralMask(cfg.tmpl, cfg.author, FileName, prov.year)[i]
          /\ c # comment[i]
          /\ comment' = [comment EXCEPT ![i] = c]
          /\ prov' = [prov EXCEPT !.kind = "altered", !.pos = i]
    /\ UNCHANGED <<cfg, now, git, last, pass>>

\* the matcher is run on the text
DoMatch ==
    /\ last.op = "none"
    /\ LET m == FindStringSubmatch(cfg.matcher, comment)
       IN  last' = [NoResult EXCEPT !.op = "Match", !.matched = m.ok, !.prev = m.year]
    /\ UNCHANGED <<cfg, now, git, comment, prov, pass>>

MatchNext == AlterLiteral \/ DoMatch

SpecMatch == MatchInit /\ [][MatchNext]_vars

----------------------------------------------------------------------------
(* The comment codec on its own: render a plain text, parse it back *)

MaxLen == 4

CodecAlphabet == {"a", " ", NL, "*"}

RECURSIVE TextsOfLen(_)
TextsOfLen(n) ==
    IF n = 0 THEN {<<>>}
    ELSE {<<c>> \o t : c \in CodecAlphabet, t \in TextsOfLen(n - 1)}

Texts == UNION {TextsOfLen(n) : n \in 0..MaxLen}

CodecInit ==
    /\ cfg = NoCfg
    /\ now = 0
    /\ git = NoGit
    /\ comment = <<>>
    /\ prov \in {[NoProv EXCEPT !.kind = "text", !.text = t, !.style = cs] :
                    t \in Texts, cs \in CommentStyles}
    /\ last = NoResult
    /\ pass = NoPass

CodecRender ==
    /\ prov.kind = "text"
    /\ last.op = "none"
    /\ comment' = Render(prov.style, prov.text)
    /\ last' = [NoResult EXCEPT !.op = "Render", !.text = Render(prov.style, prov.text),
                                !.style = prov.style]
    /\ UNCHANGED <<cfg, now, git, prov, pass>>

CodecParse ==
    /\ prov.kind = "text"
    /\ last.op = "Render"
    /\ LET r == parseComment(comment)
       IN  last' = [NoResult EXCEPT !.op = "Parse", !.status = r.status, !.text = r.text,
                                    !.style = r.style]
    /\ UNCHANGED <<cfg, now, git, comment, prov, pass>>

CodecNext == CodecRender \/ CodecParse

SpecCodec == CodecInit /\ [][CodecNext]_vars

----------------------------------------------------------------------------
(* parseComment on its own: any short text is handed to it *)

MaxInput == 5

ParseAlphabet == {"/", "*", "a", NL}

RECURSIVE InputsOfLen(_)
InputsOfLen(n) ==
    IF n = 0 THEN {<<>>}
    ELSE {<<c>> \o t : c \in ParseAlphabet, t \in InputsOfLen(n - 1)}

Inputs == UNION {InputsOfLen(n) : n \in 0..MaxInput}

ParseInit ==
    /\ cfg = NoCfg
    /\ now = 0
    /\ git = NoGit
    /\ comment \in Inputs
    /\ prov = [NoProv EXCEPT !.kind = "raw"]
    /\ last = NoResult
    /\ pass = NoPass

\* parseComment is called on the text
DoParse ==
    /\ prov.kind = "raw"
    /\ last.op = "none"
    /\ LET r == parseComment(comment)
       IN  last' = [NoResult EXCEPT !.op = "Parse", !.status = r.status, !.text = r.text,
                                    !.style = r.style]
    /\ UNCHANGED <<cfg, now, git, comment, prov, pass>>

ParseNext == DoParse

SpecParse == ParseInit /\ [][ParseNext]_vars

----------------------------------------------------------------------------
(* C2: round trip of the comment codec *)

\* the text ends in white space other than a newline
EndsInBlank(t) == t # <<>> /\ IsSpace(t[Len(t)]) /\ t[Len(t)] # NL

\* the text reads as the inside of a starred block: one line starting with a
\* star, or every line after the first starting with " *"
StarredShaped(t) ==
    LET ls == Split(t, NL)
    IN  \/ Len(ls) = 1 /\ Len(t) >= 2 /\ t[1] = "*"
        \/ Len(ls) > 1 /\ \A i \in 2..Len(ls) : HasPrefix(ls[i], <<" ", "*">>)

\* the texts each style brings back unchanged
RoundTripSafe(cs, t) ==
    CASE cs = CommentStyleLine -> ~EndsInBlank(t)
      [] cs = CommentStyleStarredBlock -> t # <<>> /\ ~EndsInBlank(t)
      [] cs = CommentStyleBlock -> t = TrimSpace(t) /\ ~StarredShaped(t)

RoundTrips ==
    last.status = "ok" /\ last.text = prov.text /\ last.style = prov.style

\* C2 as stated: for every style and every plain text, parsing the rendered
\* comment returns exactly the text and detects the style it was rendered in.
C2_RoundTripAnyText == last.op = "Parse" => RoundTrips

\* C2 amended: parsing the rendered comment returns the text and the style
\* exactly for the texts that are RoundTripSafe for the style: in line style a
\* text not ending in a space, in starred-block style a non-empty text not
\* ending in a space, in block style a text without leading or trailing white
\* space that does not read as a starred block.  Blank lines and leading
\* spaces of lines survive in line and starred-block style.
C2_RoundTripSafeText ==
    last.op = "Parse" => (RoundTrips <=> RoundTripSafe(prov.style, prov.text))

\* a parsed multi-line text with a blank line and a leading space, brought back
C2_Witness ==
    /\ last.op = "Parse"
    /\ prov.style = CommentStyleLine
    /\ prov.text = <<" ", "a", NL, NL>>
    /\ RoundTrips

----------------------------------------------------------------------------
(* C1: idempotence of Update *)

\* C1 as stated: Update called on the comment text that Create or Update just
\* returned (same clock, same history) reports changed == false.
C1_UpdateIdempotent ==
    (last.op = "Update" /\ prov.kind = "result") => ~last.changed

----------------------------------------------------------------------------
(* C3: matcher soundness *)

\* C3 as stated: the matcher NewHeader derives from the template itself matches
\* the text rendered from the template, whatever year string (single year,
\* range or list) stands in the year field.
C3_MatcherSound ==
    (last.op = "Match" /\ prov.kind = "plain" /\ prov.of = "none") => last.matched

----------------------------------------------------------------------------
(* C4: matcher selectivity *)

----------------------------------------------------------------------------
(* C5: a header with other text around it *)

\* C5 as stated: with no alternate matcher, a comment that holds the rendered
\* template plus a line of other text before or after it is not recognised:
\* Update reports changed == false.
C5_ExtraTextNotRecognised ==
    (last.op = "Update" /\ prov.kind \in {"before", "after"})
    => (~last.matched /\ ~last.changed)

----------------------------------------------------------------------------
(* C6: the year of a new header *)

\* the year the documented 'new header' column gives; the current year when
\* the history cannot be read
C6_NewHeaderYear(h, g, clock) ==
    CASE h.yearMode \in {YearModePreserve, YearModePreserveThisYearRange, YearModeThisYear} ->
            Format2006(clock)
      [] h.yearMode \in {YearModePreserveModifiedRange, YearModeLastModified} ->
            IF lastModTime(g).err THEN Format2006(clock) ELSE Format2006(lastModTime(g).year)
      [] h.yearMode = YearModeGitRange ->
            IF gitModRange(g).err THEN Format2006(clock)
            ELSE IF gitModRange(g).created = gitModRange(g).modified
            THEN Format2006(gitModRange(g).created)
            ELSE YearRange(gitModRange(g).created, gitModRange(g).modified)
      [] h.yearMode = YearModeGitModifiedList ->
            IF gitModTimes(g).err THEN Format2006(clock)
            ELSE YearList(SelectSeq([i \in 1..Len(gitModTimes(g).times) |->
                                        IF i > 1 /\ gitModTimes(g).times[i - 1] = gitModTimes(g).times[i]
                                        THEN 0 ELSE gitModTimes(g).times[i]],
                                    LAMBDA y : y # 0))

\* C6 as stated: Create renders the template with the year of the 'new header'
\* column of the active year policy, in the configured comment style.
C6_CreateFollowsPolicy ==
    last.op = "Create"
    => last.text = Render(cfg.commentStyle, render(cfg, FileName, C6_NewHeaderYear(cfg, git, now)))

----------------------------------------------------------------------------
(* C7, C8, C9: the preserving year policies *)

\* the first year of a year string
StartYear(p) == Take(p, 4)

\* start(P)-Y when the start year of P differs from year y, P otherwise
ExpectedRange(p, y) ==
    IF StartYear(p) # Format2006(y) THEN StartYear(p) \o <<"-">> \o Format2006(y) ELSE p

\* Update recognised a header that is the template rendered with a year string
UpdatedRendered(mode) ==
    /\ last.op = "Update" /\ last.matched
    /\ prov.kind = "rendered"
    /\ cfg.yearMode = mode

\* C7 as stated: under Preserve, Update renders a recognised header with the
\* year string the header had (single year, range or list), and reports
\* changed == false when the header already is in the configured style.
C7_PreserveKeepsYear ==
    UpdatedRendered(YearModePreserve)
    => /\ last.year = prov.year
       /\ (prov.style = cfg.commentStyle => ~last.changed)

\* C8 as stated: under PreserveThisYearRange, a recognised header with year
\* string P is rendered with start(P)-C when the start year of P differs from
\* the current year C and with P otherwise; and the header with P = "2022-2025"
\* is recognised and left unchanged when C = 2025.
C8_ThisYearRange ==
    /\ UpdatedRendered(YearModePreserveThisYearRange)
       => last.year = ExpectedRange(prov.year, now)
    /\ ( /\ last.op = "Update" /\ cfg.yearMode = YearModePreserveThisYearRange
         /\ prov.kind = "rendered" /\ prov.year = YearRange(2022, 2025) /\ now = 2025 )
       => (last.matched /\ last.year = YearRange(2022, 2025))

\* C9 as stated: under PreserveModifiedRange, a recognised header with year
\* string P is rendered with start(P)-M when the start year of P differs from
\* the last-modified year M, and with P otherwise.
C9_ModifiedRange ==
    (UpdatedRendered(YearModePreserveModifiedRange) /\ ~lastModTime(git).err)
    => last.year = ExpectedRange(prov.year, lastModTime(git).year)

----------------------------------------------------------------------------
(* The year policies that read the file's history, over every short history:  *)
(* a file that carries "// (c) 2022 J" is given to Create and to Update       *)

MaxCommits == 4

HistYears == {2022, 2024, 2025}

\* the commit years 'git log --reverse' can list, in the order it lists them
CommitSeqs == UNION {[1..n -> HistYears] : n \in 0..MaxCommits}

AllHistories ==
    {[addErr |-> ae, logErr |-> le, commits |-> cs, diffErr |-> de, diffOut |-> do,
      fsErr |-> fe, fsYear |-> IF fe THEN 0 ELSE 2025] :
        ae \in BOOLEAN, le \in BOOLEAN, cs \in CommitSeqs, de \in BOOLEAN,
        do \in BOOLEAN, fe \in BOOLEAN}

HistoryModes ==
    {YearModePreserveModifiedRange, YearModeLastModified, YearModeGitRange,
     YearModeGitModifiedList}

HistInit ==
    /\ cfg \in {NewHeader(Opts(TmplYearMid, ym, CommentStyleLine)).h : ym \in HistoryModes}
    /\ now \in NowYears
    /\ git \in AllHistories
    /\ comment = Render(CommentStyleLine, WrittenText(cfg, "rendered", Format2006(2022)))
    /\ prov = [NoProv EXCEPT !.kind = "rendered",
                             !.text = WrittenText(cfg, "rendered", Format2006(2022)),
                             !.style = CommentStyleLine, !.year = Format2006(2022)]
    /\ last = NoResult
    /\ pass = NoPass

HistNext == DoCreate \/ DoUpdate

SpecHist == HistInit /\ [][HistNext]_vars

----------------------------------------------------------------------------
(* C10: the list of modification years *)

\* the years of ts without the entries equal to the entry just before them
CollapseRuns(ts) ==
    SelectSeq([i \in 1..Len(ts) |-> IF i > 1 /\ ts[i - 1] = ts[i] THEN 0 ELSE ts[i]],
              LAMBDA y : y # 0)

\* the years of ts without the entries equal to any earlier entry
DistinctYears(ts) ==
    SelectSeq([i \in 1..Len(ts) |-> IF \E j \in 1..(i - 1) : ts[j] = ts[i] THEN 0 ELSE ts[i]],
              LAMBDA y : y # 0)

Chronological(ts) == \A i \in 1..(Len(ts) - 1) : ts[i] <= ts[i + 1]

\* Update recognised the header under GitModifiedList and the history was read
UpdatedFromList ==
    /\ last.op = "Update" /\ last.matched
    /\ cfg.yearMode = YearModeGitModifiedList
    /\ ~gitModTimes(git).err

\* the years of set ys in ascending order
RECURSIVE SortedYears(_)
SortedYears(ys) ==
    IF ys = {} THEN <<>>
    ELSE LET y == CHOOSE m \in ys : \A z \in ys : m <= z
         IN  <<y>> \o SortedYears(ys \ {y})

\* C10 as stated: under GitModifiedList the year string is the list of the
\* distinct years of the file's modifications in chronological order, no year
\* listed twice.
C10_DistinctYears ==
    UpdatedFromList
    => last.year = YearList(SortedYears({gitModTimes(git).times[i] :
                                            i \in 1..Len(gitModTimes(git).times)}))

\* C10 amended: under GitModifiedList the year string is the list of the years
\* of the file's modifications in the order git lists them, a year that
\* repeats the year just before it left out; no year is listed twice when the
\* modifications are listed in chronological order.
C10_CollapsedYears ==
    UpdatedFromList
    => /\ last.year = YearList(CollapseRuns(gitModTimes(git).times))
       /\ Chronological(gitModTimes(git).times)
          => last.year = YearList(DistinctYears(gitModTimes(git).times))

\* modifications in 2022, 2022, 2024 and 2025 gave "2022, 2024, 2025"
C10_Witness ==
    /\ UpdatedFromList
    /\ gitModTimes(git).times = <<2022, 2022, 2024, 2025>>
    /\ last.year = YearList(<<2022, 2024, 2025>>)

----------------------------------------------------------------------------
(* C11: the range from the history *)

\* Update recognised a header under GitRange and the history was read
UpdatedFromRange ==
    /\ last.op = "Update" /\ last.matched
    /\ cfg.yearMode = YearModeGitRange
    /\ ~gitModRange(git).err

\* C11: under GitRange, whatever year string the header had, Update renders the
\* year of the file's first commit alone when it equals the last-modified
\* year, and 'creation year-last-modified year' otherwise.
C11_GitRange ==
    UpdatedFromRange
    => last.year = IF git.commits[1] = lastModTime(git).year
                   THEN Format2006(git.commits[1])
                   ELSE YearRange(git.commits[1], lastModTime(git).year)

\* a header of 2025 on a file committed in 2022 and 2024 was given "2022-2024"
C11_Witness ==
    /\ UpdatedFromRange
    /\ prov.kind = "rendered" /\ prov.year = Format2006(2025)
    /\ git = GitClean
    /\ last.year = YearRange(2022, 2024)

----------------------------------------------------------------------------
(* C12: the current year *)

UpdatedThisYear ==
    /\ last.op = "Update" /\ last.matched
    /\ cfg.yearMode = YearModeThisYear

\* C12: under ThisYear, Update of a recognised header returns the template
\* rendered with the current year in the configured comment style, whatever
\* year the header had; a header of another year is reported changed, a header
\* that already is the current year's header in the configured style is not.
C12_ThisYear ==
    UpdatedThisYear
    => /\ last.text = Render(cfg.commentStyle, render(cfg, FileName, Format2006(now)))
       /\ (prov.kind = "rendered" /\ prov.year # Format2006(now)) => last.changed
       /\ ( /\ prov.kind = "rendered" /\ prov.year = Format2006(now)
            /\ prov.style = cfg.commentStyle ) => ~last.changed

\* "// (c) 2022 J" became "// (c) 2025 J" in 2025, reported as changed
C12_Witness ==
    /\ UpdatedThisYear
    /\ cfg.tmpl = TmplYearMid /\ cfg.commentStyle = CommentStyleLine
    /\ prov.kind = "rendered" /\ prov.style = CommentStyleLine
    /\ prov.year = Format2006(2022) /\ now = 2025
    /\ last.changed
    /\ last.text = Render(CommentStyleLine, <<"(", "c", ")", " ", "2", "0", "2", "5", " ", "J">>)

----------------------------------------------------------------------------
(* C13: a change of comment style *)

\* Update recognised a header written in another style than the configured one
UpdatedOtherStyle ==
    /\ last.op = "Update" /\ last.matched
    /\ last.style # cfg.commentStyle

\* C13: when Update recognises a header whose detected comment style is not
\* the configured one, it reports changed and returns the header rendered in
\* the configured style, also when the text inside the comment stays the same.
C13_StyleChange ==
    UpdatedOtherStyle
    => /\ last.changed
       /\ last.text = Render(cfg.commentStyle, render(cfg, FileName, last.year))

\* a line comment under a block configuration: same text, reported changed
C13_Witness ==
    /\ UpdatedOtherStyle
    /\ last.style = CommentStyleLine /\ cfg.commentStyle = CommentStyleBlock
    /\ last.plain = render(cfg, FileName, last.year)
    /\ last.changed
    /\ last.text = Render(CommentStyleBlock, last.plain)

----------------------------------------------------------------------------
(* C14: the history cannot be read *)

\* what the active year policy reads of the file's history could not be read
HistoryFailed ==
    CASE cfg.yearMode \in {YearModePreserveModifiedRange, YearModeLastModified} ->
            lastModTime(git).err
      [] cfg.yearMode = YearModeGitRange -> gitModRange(git).err
      [] cfg.yearMode = YearModeGitModifiedList -> gitModTimes(git).err
      [] OTHER -> FALSE

\* C14: Update of a recognised header returns no error and renders a non-empty
\* year under every year policy and history; when the history the policy needs
\* cannot be read, the year is the current year, or under
\* PreserveModifiedRange the year the header had.
C14_HistoryFailure ==
    (last.op = "Update" /\ last.matched)
    => /\ last.status = "ok"
       /\ last.year # <<>>
       /\ HistoryFailed
          => last.year = IF cfg.yearMode = YearModePreserveModifiedRange
                         THEN last.prev ELSE Format2006(now)

\* every git command failed under GitRange: the header got the current year
C14_Witness ==
    /\ last.op = "Update" /\ last.matched /\ last.status = "ok"
    /\ cfg.yearMode = YearModeGitRange
    /\ git.addErr /\ git.logErr /\ git.diffErr
    /\ last.year = Format2006(now)

----------------------------------------------------------------------------
(* The analyzer at work: NewAnalyzer is called with a configuration, and      *)
(* analyzer.run with the files of one package.  pass holds                    *)
(*   state     "config" before NewAnalyzer, "failed" when it returned an      *)
(*             error, "running" while run loops over the files and waits,     *)
(*             "returned" after run returned, "crashed" after a panic         *)
(*   config, a the Config and the analyzer built from it                      *)
(*   files     pass.Files; next is the index the loop of run has reached      *)
(*   active    the files whose checkFile is in flight (errgroup goroutines)   *)
(*   reports   what checkFile did for each file that was checked              *)
(*   firstErr  the file whose error the errgroup kept, 0 for none             *)
(*   result    what run returned: "ok" or "error"                             *)
(*   diagnostics  the files whose diagnostic the driver holds: pass.Report     *)
(*             appends to a slice of the driver without a lock                *)
(*   pending   for each checkFile inside pass.Report, the diagnostics the     *)
(*             append read before it writes                                   *)
(*   round     1 for the first run, 2 for the run over the fixed files        *)
(*   orig      the files as they were before any fix was applied              *)
(*   before    the reports of the first run, once its fixes were applied      *)

MaxFiles == 2

\* "Copyright {{.year}}"
TmplCopyright == <<"C", "o", "p", "y", "r", "i", "g", "h", "t", " ", TokYear>>

RunOpts == Opts(TmplCopyright, YearModeThisYear, CommentStyleLine)

BaseConfig ==
    [Header |-> RunOpts, Exclude |-> <<>>, MaxConcurrent |-> 1, CopyrightHeaderMatcher |-> <<>>]

\* the values of MaxConcurrent a configuration sets: 0 and -1 ask for the default
ConfiguredLimits == {-1, 0, 1, 2}

\* a custom variable with and without a pattern of its own
VarPlain == [Value |-> <<"p">>, Regexp |-> <<>>]
VarBadRegexp == [Value |-> <<"p">>, Regexp |-> <<"(">>]

\* configurations that differ from BaseConfig in one option and are valid
ValidConfigs ==
    {[BaseConfig EXCEPT !.Header.AuthorRegexp = <<"J">>],
     [BaseConfig EXCEPT !.Header.Variables = [t \in {TokProject} |-> VarPlain]],
     [BaseConfig EXCEPT !.Header.Matcher = <<"(", "C", ")", " ", TokYear>>],
     [BaseConfig EXCEPT !.Exclude = << <<"r!", "a.go">>, <<>> >>],
     [BaseConfig EXCEPT !.CopyrightHeaderMatcher = <<"(", "x", ")">>]}

\* the same with an option NewHeader rejects
BadHeaderConfigs ==
    {[BaseConfig EXCEPT !.Header.Author = <<>>],
     [BaseConfig EXCEPT !.Header.Template = <<>>],
     [BaseConfig EXCEPT !.Header.Template = <<"C", " ", TokBadAction>>],
     [BaseConfig EXCEPT !.Header.Template = <<"C", " ", TokProject>>],
     [BaseConfig EXCEPT !.Header.AuthorRegexp = <<"(", "J">>],
     [BaseConfig EXCEPT !.Header.Variables = [t \in {TokProject} |-> VarBadRegexp]],
     [BaseConfig EXCEPT !.Header.Matcher = <<"C", " ", TokBadAction>>],
     [BaseConfig EXCEPT !.Header.Matcher = <<"C", " ", TokProject>>],
     [BaseConfig EXCEPT !.Header.Matcher = <<"(", "C", " ", TokYear>>]}

\* the same with an option only newAnalyzer rejects
BadAnalyzerConfigs ==
    {[BaseConfig EXCEPT !.CopyrightHeaderMatcher = <<"(", "x">>],
     [BaseConfig EXCEPT !.Exclude = << <<"r!", "(">> >>],
     [BaseConfig EXCEPT !.Exclude = << <<"[", "a.go">> >>]}

\* an ast.File: comments are the comments of its first comment group,
\* beforePackage whether that group stands before the package clause, rest the
\* comment groups between it and the package clause
File(name, generated, comments, beforePackage) ==
    [name |-> name, generated |-> generated, comments |-> comments,
     beforePackage |-> beforePackage, rest |-> <<>>]

CurrentHeader == <<"/", "/", " ">> \o Execute(TmplCopyright, Author, <<"a.go">>, Format2006(2025))
OutdatedHeader == <<"/", "/", " ">> \o Execute(TmplCopyright, Author, <<"a.go">>, Format2006(2022))

\* the files a package is made of
FileKinds ==
    {File(<<"a.go">>, TRUE, <<>>, FALSE),                       \* generated
     File(<<"a.go">>, FALSE, <<>>, FALSE),                      \* no comment
     File(<<"a.go">>, FALSE, << <<"/", "/", " ", "x">> >>, TRUE),   \* another comment
     File(<<"a.go">>, FALSE, <<CurrentHeader>>, TRUE),          \* this year's header
     File(<<"a.go">>, FALSE, <<OutdatedHeader>>, TRUE),         \* a header of 2022
     File(<<"a.go">>, FALSE, <<OutdatedHeader>>, FALSE),        \* the same after 'package'
     \* "// copyright x": somebody else's header
     File(<<"a.go">>, FALSE,
          << <<"/", "/", " ", "c", "o", "p", "y", "r", "i", "g", "h", "t", " ", "x">> >>, TRUE),
     \* "/* Copyright */" and "// x" in one comment group
     File(<<"a.go">>, FALSE,
          << <<"/", "*", " ", "C", "o", "p", "y", "r", "i", "g", "h", "t", " ", "*", "/">>,
             <<"/", "/", " ", "x">> >>, TRUE),
     \* the header, then a block comment with an empty line in it
     File(<<"a.go">>, FALSE, <<CurrentHeader, <<"/", "*", NL, NL, "*", "/">> >>, TRUE),
     File(<<"testdata", "/", "b.go">>, FALSE, <<>>, FALSE)}     \* excluded by default

FileLists(n) == UNION {[1..k -> FileKinds] : k \in 0..n}

StartPass(config, files) ==
    [state |-> "config", config |-> config, a |-> NoAnalyzer, files |-> files, next |-> 1,
     active |-> {}, reports |-> [i \in {} |-> NoReport], firstErr |-> 0, result |-> "none",
     round |-> 1, orig |-> files, before |-> [i \in {} |-> NoReport],
     diagnostics |-> {}, pending |-> [i \in {} |-> {}]]

RunInit ==
    /\ cfg = NoCfg
    /\ now \in NowYears
    /\ git = GitClean
    /\ comment = <<>>
    /\ prov = NoProv
    /\ last = NoResult
    /\ \/ \E m \in ConfiguredLimits, fs \in FileLists(MaxFiles) :
             pass = StartPass([BaseConfig EXCEPT !.MaxConcurrent = m], fs)
       \/ \E c \in ValidConfigs \cup BadHeaderConfigs \cup BadAnalyzerConfigs,
             fs \in FileLists(1) :
             pass = StartPass(c, fs)

\* NewAnalyzer
DoNewAnalyzer ==
    /\ pass.state = "config"
    /\ LET r == newAnalyzer(pass.config)
       IN  /\ pass' = [pass EXCEPT !.state = IF r.err THEN "failed" ELSE "running",
                                   !.a = IF r.err THEN NoAnalyzer ELSE r.a]
           /\ cfg' = IF r.err THEN NoCfg ELSE r.a.header
    /\ UNCHANGED <<now, git, comment, prov, last>>

\* run: the loop meets a generated file and goes on
RunSkipGenerated ==
    /\ pass.state = "running"
    /\ pass.next <= Len(pass.files)
    /\ pass.files[pass.next].generated
    /\ pass' = [pass EXCEPT !.next = @ + 1]
    /\ UNCHANGED <<cfg, now, git, comment, prov, last>>

\* a plausible slip: the errgroup is given no limit
RunGoNoLimit ==
    /\ pass.state = "running"
    /\ pass.next <= Len(pass.files)
    /\ ~pass.files[pass.next].generated
    /\ pass' = [pass EXCEPT !.next = @ + 1, !.active = @ \cup {pass.next}]
    /\ UNCHANGED <<cfg, now, git, comment, prov, last>>

\* run: errg.Go starts checkFile for the next file once a slot is free
RunGo ==
    /\ pass.state = "running"
    /\ pass.next <= Len(pass.files)
    /\ ~pass.files[pass.next].generated
    /\ Cardinality(pass.active) < pass.a.cfg.MaxConcurrent
    /\ pass' = [pass EXCEPT !.next = @ + 1, !.active = @ \cup {pass.next}]
    /\ UNCHANGED <<cfg, now, git, comment, prov, last>>

\* a goroutine of the errgroup: checkFile for file i calls pass.Report, whose
\* append reads the driver's diagnostics; other goroutines run before it writes
TaskReport ==
    /\ pass.state = "running"
    /\ \E i \in pass.active \ DOMAIN pass.pending :
          /\ checkFile(pass.a, pass.files[i], git, now).message # ""
          /\ pass' = [pass EXCEPT
                          !.pending = [j \in DOMAIN @ \cup {i} |->
                                          IF j = i THEN pass.diagnostics ELSE @[j]]]
    /\ UNCHANGED <<cfg, now, git, comment, prov, last>>

\* a goroutine of the errgroup: checkFile for file i ends, the append of its
\* pass.Report, if any, having written what it read and the new diagnostic
TaskDone ==
    /\ pass.state = "running"
    /\ \E i \in pass.active :
          \E r \in {checkFile(pass.a, pass.files[i], git, now)} :
              /\ r.message # "" => i \in DOMAIN pass.pending
              /\ pass' = [pass EXCEPT
                             !.state = IF r.panic THEN "crashed" ELSE @,
                             !.active = @ \ {i},
                             !.reports = [j \in DOMAIN @ \cup {i} |-> IF j = i THEN r ELSE @[j]],
                             !.firstErr = IF r.err /\ @ = 0 THEN i ELSE @,
                             !.diagnostics = IF r.message # "" THEN pass.pending[i] \cup {i}
                                             ELSE @,
                             !.pending = [j \in DOMAIN @ \ {i} |-> @[j]]]
    /\ UNCHANGED <<cfg, now, git, comment, prov, last>>

\* run: errg.Wait returns when no checkFile is in flight
RunReturn ==
    /\ pass.state = "running"
    /\ pass.next > Len(pass.files)
    /\ pass.active = {}
    /\ pass' = [pass EXCEPT !.state = "returned",
                            !.result = IF pass.firstErr # 0 THEN "error" ELSE "ok"]
    /\ UNCHANGED <<cfg, now, git, comment, prov, last>>

RunNext == DoNewAnalyzer \/ RunSkipGenerated \/ RunGo \/ TaskReport \/ TaskDone \/ RunReturn

SpecRun == RunInit /\ [][RunNext]_vars

----------------------------------------------------------------------------
(* C15, C16: what checkFile reports *)

\* file i of the pass was checked and was not excluded
Checked(i) ==
    /\ pass.state \in {"running", "returned"}
    /\ i \in DOMAIN pass.reports
    /\ ~\E k \in 1..Len(pass.a.excludes) : ExcludeMatches(pass.a.excludes[k], pass.files[i].name)

\* the copyright-detection pattern matches the text
LooksLikeCopyright(header) == FindStringSubmatch(pass.a.headerMatcher, header).ok

\* the comment can be parsed and the header matcher finds no match in its text
OtherHeader(header) ==
    /\ parseComment(header).status = "ok"
    /\ ~FindStringSubmatch(cfg.matcher, parseComment(header).text).ok

\* C15: a file whose leading comment matches the copyright-detection pattern
\* and is not matched by the header matcher is left alone: Update reports no
\* change and checkFile reports nothing and returns no error.
C15_OtherHeaderLeftAlone ==
    \A i \in DOMAIN pass.reports :
        LET header == LeadingComment(pass.files[i])
        IN  (Checked(i) /\ header # <<>> /\ LooksLikeCopyright(header) /\ OtherHeader(header))
            => /\ ~Update(cfg, pass.files[i].name, header, git, now).changed
               /\ pass.reports[i] = NoReport

\* "// copyright x" was checked and nothing was reported
C15_Witness ==
    \E i \in DOMAIN pass.reports :
        /\ Checked(i)
        /\ LeadingComment(pass.files[i]) =
              <<"/", "/", " ", "c", "o", "p", "y", "r", "i", "g", "h", "t", " ", "x", NL>>
        /\ LooksLikeCopyright(LeadingComment(pass.files[i]))
        /\ OtherHeader(LeadingComment(pass.files[i]))
        /\ pass.reports[i] = NoReport

\* C16: a checked file with no comment before the package clause, or with a
\* leading comment the copyright-detection pattern does not match, is reported
\* as 'missing license header' with a fix that inserts the output of Create
\* and a newline at the start of the file.
C16_MissingHeader ==
    \A i \in DOMAIN pass.reports :
        LET header == LeadingComment(pass.files[i])
        IN  (Checked(i) /\ (header = <<>> \/ ~LooksLikeCopyright(header)))
            => /\ ~pass.reports[i].err
               /\ pass.reports[i].message = "missing license header"
               /\ pass.reports[i].pos = "start" /\ pass.reports[i].end = "start"
               /\ pass.reports[i].text = Create(cfg, pass.files[i].name, now) \o <<NL>>

\* a file that starts with "// x" was reported, the header to be put before it
C16_Witness ==
    \E i \in DOMAIN pass.reports :
        /\ Checked(i)
        /\ LeadingComment(pass.files[i]) = <<"/", "/", " ", "x", NL>>
        /\ pass.reports[i].message = "missing license header"
        /\ pass.reports[i].pos = "start"
        /\ pass.reports[i].text = CurrentHeader \o <<NL, NL>>

----------------------------------------------------------------------------
(* The suggested fixes applied: one file is analysed, the text edits of its  *)
(* diagnostic are applied to it, and the same analyzer runs again            *)

\* the comments the scanner reads from a rendered comment: one per line of a
\* line comment, one for a block comment
CommentsOf(text) ==
    LET t == TrimRight(text)
    IN  IF HasPrefix(t, <<"/", "/">>) THEN Split(t, NL) ELSE <<t>>

\* the file after the TextEdit of report r: NewText put at the start of the
\* file, or in the place of the first comment group
ApplyFix(file, r) ==
    IF r.message = "" THEN file
    ELSE IF r.pos = "start"
    THEN [file EXCEPT !.comments = CommentsOf(r.text),
                      !.beforePackage = TRUE,
                      !.rest = IF file.comments # <<>> /\ file.beforePackage
                               THEN <<file.comments>> \o file.rest ELSE <<>>]
    ELSE [file EXCEPT !.comments = CommentsOf(r.text)]

\* "//go:b", a directive
DirectiveComment == <<"/", "/", "g", "o", ":", "b">>

\* files that start with a directive: alone, with the header in the same
\* comment group, and with the header in a comment group of its own
DirectiveKinds ==
    {File(<<"a.go">>, FALSE, <<DirectiveComment>>, TRUE),
     File(<<"a.go">>, FALSE, <<DirectiveComment, CurrentHeader>>, TRUE),
     [File(<<"a.go">>, FALSE, <<DirectiveComment>>, TRUE) EXCEPT !.rest = << <<CurrentHeader>> >>]}

FixConfigs ==
    {[BaseConfig EXCEPT !.Header = Opts(TmplCopyright, ym, cs)] :
        ym \in YearModes, cs \in CommentStyles}

FixInit ==
    /\ cfg = NoCfg
    /\ now \in NowYears
    /\ git \in {GitClean, GitDirty}
    /\ comment = <<>>
    /\ prov = NoProv
    /\ last = NoResult
    /\ \E c \in FixConfigs, f \in FileKinds \cup DirectiveKinds : pass = StartPass(c, <<f>>)

\* the fixes of the first run's diagnostics are applied and run is called again
ApplyFixes ==
    /\ pass.state = "returned"
    /\ pass.round = 1
    /\ pass' = [pass EXCEPT
                   !.state = "running",
                   !.files = [i \in DOMAIN pass.files |->
                                 IF i \in pass.diagnostics
                                 THEN ApplyFix(pass.files[i], pass.reports[i])
                                 ELSE pass.files[i]],
                   !.next = 1,
                   !.reports = [i \in {} |-> NoReport],
                   !.firstErr = 0,
                   !.result = "none",
                   !.round = 2,
                   !.before = pass.reports,
                   !.diagnostics = {},
                   !.pending = [i \in {} |-> {}]]
    /\ UNCHANGED <<cfg, now, git, comment, prov, last>>

FixNext ==
    DoNewAnalyzer \/ RunSkipGenerated \/ RunGo \/ TaskReport \/ TaskDone \/ RunReturn \/ ApplyFixes

SpecFix == FixInit /\ [][FixNext]_vars

----------------------------------------------------------------------------
(* C17: the number of files checked at a time *)

\* the limit the configuration asks for
ConfiguredLimit ==
    IF pass.config.MaxConcurrent < 1 THEN DefaultMaxConcurrent ELSE pass.config.MaxConcurrent

\* C17: once the analyzer is built its MaxConcurrent is the configured value,
\* or DefaultMaxConcurrent when that is below 1, and during run the number of
\* checkFile calls in flight never exceeds it.
C17_BoundedConcurrency ==
    pass.state \in {"running", "returned", "crashed"}
    => /\ pass.a.cfg.MaxConcurrent = ConfiguredLimit
       /\ Cardinality(pass.active) <= ConfiguredLimit

\* with MaxConcurrent 1, one file is being checked and the next one waits
C17_Witness ==
    /\ pass.state = "running"
    /\ pass.config.MaxConcurrent = 1
    /\ Cardinality(pass.active) = 1
    /\ pass.next <= Len(pass.files) /\ ~pass.files[pass.next].generated

----------------------------------------------------------------------------
(* C18: failures of single files *)

\* the files whose checkFile returned an error
FailedFiles == {i \in DOMAIN pass.reports : pass.reports[i].err}

\* the files whose error is in what errg.Wait hands back to run's caller
ReturnedFailures == IF pass.firstErr = 0 THEN {} ELSE {pass.firstErr}

\* C18: when run returns, every file that is not generated has been checked,
\* the error of every file whose check failed is in what run returns, and run
\* returns an error exactly when some check failed.
C18_FailuresCollected ==
    pass.state = "returned"
    => /\ \A i \in 1..Len(pass.files) :
             ~pass.files[i].generated => i \in DOMAIN pass.reports
       /\ ReturnedFailures = FailedFiles
       /\ (pass.result = "error") <=> (FailedFiles # {})

----------------------------------------------------------------------------
(* C19: configuration errors *)

\* nothing of the package has been looked at
NothingProcessed ==
    /\ pass.next = 1
    /\ pass.active = {}
    /\ DOMAIN pass.reports = {}
    /\ pass.result = "none"

----------------------------------------------------------------------------
(* C20: a leading comment the comment codec cannot parse *)

\* file i is checked, its leading comment is taken for a license header and
\* handed to Update, and parseComment returns an error for it
Unparseable(i) ==
    /\ Checked(i)
    /\ LooksLikeCopyright(LeadingComment(pass.files[i]))
    /\ parseComment(LeadingComment(pass.files[i])).status = "error"

\* C20: Update of a comment that parseComment rejects returns the comment as it
\* was, not changed and without an error; checkFile returns no error for the
\* file, and run does not return the error of that file.
C20_UnparseableIsUnmatched ==
    \A i \in DOMAIN pass.reports :
        Unparseable(i)
        => /\ LET u == Update(pass.a.header, pass.files[i].name,
                              LeadingComment(pass.files[i]), git, now)
              IN  u.status = "ok" /\ ~u.changed
           /\ ~pass.reports[i].err
           /\ pass.firstErr # i

----------------------------------------------------------------------------
(* C21: what the year group captures *)

\* C21: a matcher built from a template, run on the text rendered from that
\* template with a single year, a range or a list in the year field, matches
\* and its group 'year' holds the whole year string.
C21_YearCaptured ==
    (last.op = "Match" /\ prov.kind = "plain" /\ prov.of # "raw")
    => last.matched /\ last.prev = prov.year

----------------------------------------------------------------------------
(* C22: the last modification time *)

\* the time C22 describes: the file system's when 'git diff' fails or prints
\* something, else that of the last commit 'git log -1' prints
ExpectedLastMod ==
    IF git.diffErr \/ git.diffOut
    THEN IF git.fsErr THEN TimeErr ELSE TimeOk(git.fsYear)
    ELSE IF git.logErr \/ git.commits = <<>> THEN TimeErr
         ELSE TimeOk(git.commits[Len(git.commits)])

\* C22: lastModTime returns the file system's modification time when
\* 'git diff' prints something or fails, and otherwise the time of the last
\* commit that touched the file (an error when 'git log' gives none); an
\* Update under LastModified writes the year of that time.
C22_LastModTime ==
    (last.op = "Update" /\ last.matched /\ cfg.yearMode = YearModeLastModified)
    => /\ lastModTime(git) = ExpectedLastMod
       /\ ~ExpectedLastMod.err => last.year = Format2006(ExpectedLastMod.year)

\* a file last committed in 2022 with uncommitted changes: the year is that of
\* the file on disk
C22_Witness ==
    /\ last.op = "Update" /\ last.matched /\ cfg.yearMode = YearModeLastModified
    /\ git.diffOut /\ ~git.diffErr /\ ~git.fsErr /\ ~git.logErr
    /\ git.commits # <<>> /\ git.commits[Len(git.commits)] = 2022
    /\ last.year = Format2006(git.fsYear)

----------------------------------------------------------------------------
(* C23: the creation time when the adding commit is not found *)

\* C23: when the lookup of the commit that added the file fails and the log of
\* the file's commits can be read, gitModRange returns the time of the oldest
\* commit as the creation time, however many commits the file has, and an
\* Update under GitRange writes a year string that starts with that year.
C23_CreationFallback ==
    (/\ last.op = "Update" /\ last.matched /\ cfg.yearMode = YearModeGitRange
     /\ git.addErr /\ ~git.logErr /\ git.commits # <<>> /\ ~lastModTime(git).err)
    => /\ ~gitModRange(git).err
       /\ gitModRange(git).created = git.commits[1]
       /\ Take(last.year, 4) = Format2006(git.commits[1])

----------------------------------------------------------------------------
(* C24: directives before the header *)

\* the first comment of the file's leading comment group is a directive
DirectiveFirst(file) ==
    /\ file.comments # <<>> /\ file.beforePackage
    /\ HasPrefix(file.comments[1], <<"/", "/">>)
    /\ isDirective(Drop(file.comments[1], 2))

\* the comments of group other than directives, as checkFile joins them
WithoutDirectives(group) ==
    Concat([i \in 1..Len(group) |->
               IF HasPrefix(group[i], <<"/", "/">>) /\ isDirective(Drop(group[i], 2))
               THEN <<>> ELSE group[i] \o <<NL>>])

\* group holds a license header of the configured template
IsLicenseHeader(group) ==
    LET pc == parseComment(WithoutDirectives(group))
    IN  pc.status = "ok" /\ FindStringSubmatch(pass.a.header.matcher, pc.text).ok

\* the number of license headers before the package clause of file
HeaderCount(file) ==
    IF ~file.beforePackage THEN 0
    ELSE LET groups == <<file.comments>> \o file.rest
         IN  Cardinality({i \in 1..Len(groups) : IsLicenseHeader(groups[i])})

\* C24: for a file that starts with a directive, parseComment of the leading
\* comment returns no content, style Line and no error; the analyzer does not
\* replace the comment; and when a license header follows the directive, the
\* file has as many license headers after the suggested fixes as before.
C24_DirectiveKept ==
    \A i \in DOMAIN pass.orig :
        (pass.state \in {"running", "returned"} /\ DirectiveFirst(pass.orig[i]))
        => /\ parseComment(LeadingComment(pass.orig[i])) =
                 [status |-> "ok", text |-> <<>>, style |-> CommentStyleLine]
           /\ i \in DOMAIN pass.reports /\ pass.round = 1
              => pass.reports[i].message # "invalid license header"
           /\ pass.round = 2 /\ HeaderCount(pass.orig[i]) > 0
              => HeaderCount(pass.files[i]) = HeaderCount(pass.orig[i])

----------------------------------------------------------------------------
(* C25: parseComment on texts that are no comment *)

\* the texts C25 names: plain text, a block comment that is not terminated,
\* and a line comment with a later line that does not start with "//"
NotAComment(s0) ==
    LET s == TrimSpace(s0)
    IN  \/ ~HasPrefix(s, <<"/", "/">>) /\ ~HasPrefix(s, <<"/", "*">>)
        \/ HasPrefix(s, <<"/", "*">>) /\ ~(Len(s) >= 4 /\ HasSuffix(s, <<"*", "/">>))
        \/ /\ HasPrefix(s, <<"/", "/">>)
           /\ \E i \in 2..Len(Split(s, NL)) : ~HasPrefix(Split(s, NL)[i], <<"/", "/">>)

\* C25: parseComment returns a result or an error for every text, never
\* panics, and returns an error for every text that is no comment.
C25_CleanFailure ==
    (last.op = "Parse" /\ prov.kind = "raw")
    => /\ last.status # "panic"
       /\ NotAComment(comment) => last.status = "error"

----------------------------------------------------------------------------
(* Templates with custom variables: NewHeader is given a template that refers *)
(* to the variable project, directly or inside a condition, with the variable *)
(* declared or not and with or without an alternate matcher; the Headers it   *)
(* returns are used by Create and by Update on "// Copyright 2022"            *)

\* "Copyright {{.year}} {{.project}}"
TmplProject == TmplCopyright \o <<" ", TokProject>>

\* "Copyright {{.year}} {{if ne .filename "test"}}{{.project}}{{end}}"
TmplProjectUnlessTest == TmplCopyright \o <<" ", TokProjectUnlessTest>>

VariableOpts ==
    {[Opts(t, ym, cs) EXCEPT !.Variables = v, !.Matcher = m, !.MatcherEscape = TRUE] :
        t \in {TmplCopyright, TmplProject, TmplProjectUnlessTest},
        v \in {<<>>, [k \in {TokProject} |-> VarPlain]},
        m \in {<<>>, TmplCopyright},
        ym \in YearModes, cs \in CommentStyles}

VariableInit ==
    /\ cfg \in {NewHeader(o).h : o \in {o \in VariableOpts : ~NewHeader(o).err}}
    /\ now \in NowYears
    /\ git = GitClean
    /\ comment = OutdatedHeader \o <<NL>>
    /\ prov = [NoProv EXCEPT !.kind = "rendered", !.text = Drop(OutdatedHeader, 3),
                             !.style = CommentStyleLine, !.year = Format2006(2022)]
    /\ last = NoResult
    /\ pass = NoPass

VariableNext == DoCreate \/ DoUpdate

SpecVariable == VariableInit /\ [][VariableNext]_vars

----------------------------------------------------------------------------
(* C26: rendering after construction *)

\* C26: Create and Update of a Header that NewHeader returned, called on a
\* comment that parses, return no error.
C26_RenderNeverFails ==
    (last.op \in {"Create", "Update"} /\ parseComment(comment).status = "ok")
    => last.status = "ok"

----------------------------------------------------------------------------
(* C27: what the checkFile tasks share *)

\* the files checkFile reported a diagnostic for
Reported == {i \in DOMAIN pass.reports : pass.reports[i].message # ""}

\* C27: whatever the order in which the checkFile tasks of a run take their
\* steps, when run returns the driver holds the diagnostic of every file that
\* checkFile reported one for, and each is what checkFile computes for the
\* file on its own.
C27_NoDiagnosticLost ==
    pass.state = "returned"
    => /\ pass.diagnostics = Reported
       /\ \A i \in DOMAIN pass.reports :
             pass.reports[i] = checkFile(pass.a, pass.files[i], git, now)

----------------------------------------------------------------------------
(* C28: the analyzer run again on the fixed file *)

\* C28: after the suggested fix of a diagnostic was applied to a file, the
\* second run of the analyzer (same clock, same history) reports no diagnostic
\* for the file.
C28_FixPoint ==
    \A i \in DOMAIN pass.reports :
        (pass.round = 2 /\ i \in DOMAIN pass.before /\ pass.before[i].message # "")
        => pass.reports[i].message = ""

----------------------------------------------------------------------------
(* C29: the shape of year ranges *)

\* the number a decimal digit stands for
DigitValue(c) == CHOOSE d \in 0..9 : Digit(d) = c

\* the year that four digits at position p of s spell
YearValue(s, p) ==
    1000 * DigitValue(s[p]) + 100 * DigitValue(s[p + 1]) + 10 * DigitValue(s[p + 2])
    + DigitValue(s[p + 3])

\* s is A-B for two years A < B of four digits
WellFormedRange(s) ==
    /\ Len(s) = 9
    /\ Year4At(s, 1) /\ s[5] = "-" /\ Year4At(s, 6)
    /\ YearValue(s, 1) < YearValue(s, 6)

\* C29: under PreserveThisYearRange, PreserveModifiedRange and GitRange the year
\* string Update renders is a single year of four digits or a range A-B of two
\* such years with A < B.
C29_RangeWellFormed ==
    (/\ last.op = "Update" /\ last.matched /\ last.status = "ok"
     /\ cfg.yearMode \in {YearModePreserveThisYearRange, YearModePreserveModifiedRange,
                          YearModeGitRange})
    => \/ Len(last.year) = 4 /\ Year4At(last.year, 1)
       \/ WellFormedRange(last.year)

----------------------------------------------------------------------------
(* C30: local changes in the list of modification years *)

\* C30: when 'git diff' succeeds and prints changes for the file, so that
\* lastModTime returns the file system's modification time, gitModTimes ends
\* with that time, and the year string Update renders under GitModifiedList
\* ends with its year.
C30_LocalChangeListed ==
    (/\ last.op = "Update" /\ last.matched /\ cfg.yearMode = YearModeGitModifiedList
     /\ git.diffOut /\ ~git.diffErr /\ ~git.fsErr /\ ~gitModTimes(git).err)
    => /\ lastModTime(git) = TimeOk(git.fsYear)
       /\ gitModTimes(git).times[Len(gitModTimes(git).times)] = git.fsYear
       /\ Drop(last.year, Len(last.year) - 4) = Format2006(git.fsYear)

====
